---- MODULE Spec2Model ----
(***************************************************************************)
(* A model of the Logger package (StarByteGames/Logger).                   *)
(*                                                                         *)
(* Two revisions of the package are modelled side by side:                 *)
(*   build = "main.go"   the file-backed logger of src/main.go             *)
(*   build = "part_000"  the console-only logger of src/unnamed/part_000   *)
(* A behaviour picks one build, constructs one logger, and then lets       *)
(* NumCallers goroutines call its methods.  Every method is cut at the     *)
(* places where another goroutine can observe or change shared state (the  *)
(* file, the console, the standard error stream, the process itself), so   *)
(* the interleavings of concurrent calls are all explored.                 *)
(*                                                                         *)
(* Files, console and standard error are strings, exactly the bytes the    *)
(* code formats.                                                           *)
(***************************************************************************)
EXTENDS Integers, Sequences, FiniteSets, TLC

VARIABLES
    build,      \* which revision runs: "main.go" or "part_000"
    l,          \* the *Logger the constructor returned: "nil", "&Logger", or
                \* "collected" once every holder has dropped it
    err,        \* the error the constructor returned: "none" (not called), "nil", "open"
    args,       \* the arguments the constructor was called with
    logger,     \* the Logger struct
    fd,         \* state of the os.File behind logger.logFile: "none", "open", "closed"
    file,       \* content of the log file on disk
    prior,      \* content of the log file before the program started
    console,    \* bytes written to standard output
    stderr,     \* bytes written to standard error by the log package
    now,        \* the wall clock, in seconds
    procState,  \* "running", "exited" (os.Exit) or "panicked"
    exitStatus, \* the argument of os.Exit, once procState = "exited"
    pc,         \* pc[c]: where caller c is inside its current call
    call,       \* call[c]: arguments and locals of caller c's current (or last) call
    hist,       \* hist[c]: the logging calls caller c has made, in order
    closes      \* number of Close() calls made through the public method

vars == <<build, l, err, args, logger, fd, file, prior, console, stderr, now,
          procState, exitStatus, pc, call, hist, closes>>

(***************************************************************************)
(* Bounds of the model.                                                    *)
(***************************************************************************)
NumCallers == 2
MaxCalls == 2
MaxCloses == 2
MaxClock == 1
MaxParts == 1
MaxThreshold == 5

(***************************************************************************)
(* LogLevel and its constants (an int type: a threshold above FATAL is a   *)
(* value a caller can pass).                                               *)
(***************************************************************************)
DEBUG == 0
INFO == 1
WARNING == 2
ERROR == 3
FATAL == 4

Callers == 1..NumCallers
Severities == DEBUG..FATAL
Thresholds == DEBUG..MaxThreshold
PartsSet == {[i \in 1..n |-> "x"] : n \in 1..MaxParts}
ExitCodeNames == {"ERROR", "SHUTDOWN", "SUCCESS", "UNKNOWN_NAME"}
Paths == {"app.log", "/no/such/dir/app.log"}
PriorContents == {"[2006-01-02 15:03:59] INFO: old \n"}

(***************************************************************************)
(* Pure helpers.                                                           *)
(***************************************************************************)
\* The exit-code table NewLogger stores in every Logger.
ExitCodes == [ERROR |-> -1, SHUTDOWN |-> 0, SUCCESS |-> 0]

\* The package-level table of part_000.
exitCodes == [ERROR |-> -1, SHUTDOWN |-> 0, SUCCESS |-> 0]

\* m[k] on a Go map: the zero value for a missing key.
MapGet(m, k) == IF k \in DOMAIN m THEN m[k] ELSE 0

\* A constructor that drops the error of os.OpenFile sees every open succeed.
OpenFile_errorIgnored(path) == TRUE

\* os.OpenFile(path, O_APPEND|O_CREATE|O_WRONLY, 0644): does it succeed?
OpenFile(path) == path = "app.log"

RECURSIVE join(_)
join(parts) ==
    IF parts = <<>> THEN ""
    ELSE join(SubSeq(parts, 1, Len(parts) - 1)) \o parts[Len(parts)] \o " "

\* An off-by-one filter: level <= l.level.
belowThreshold_offByOne(level, threshold) == level <= threshold

\* The early return of log: level < l.level.
belowThreshold(level, threshold) == level < threshold

\* The switch of log in main.go.
levelString(level) ==
    CASE level = DEBUG   -> "DEBUG"
      [] level = INFO    -> "INFO"
      [] level = WARNING -> "WARNING"
      [] level = ERROR   -> "ERROR"
      [] level = FATAL   -> "FATAL"
      [] OTHER           -> ""

levelColor(level) ==
    CASE level = DEBUG   -> "36"
      [] level = INFO    -> "32"
      [] level = WARNING -> "33"
      [] level = ERROR   -> "31"
      [] level = FATAL   -> "35"
      [] OTHER           -> "nil"

\* The switch of log in part_000: it has no case for DEBUG.
levelString0(level) ==
    CASE level = INFO    -> "INFO"
      [] level = WARNING -> "WARNING"
      [] level = ERROR   -> "ERROR"
      [] level = FATAL   -> "FATAL"
      [] OTHER           -> ""

levelColor0(level) ==
    CASE level = INFO    -> "32"
      [] level = WARNING -> "33"
      [] level = ERROR   -> "31"
      [] level = FATAL   -> "35"
      [] OTHER           -> "nil"

\* time.Now().Format("2006-01-02 15:04:05")
Format(t) == "2006-01-02 15:04:0" \o ToString(t)

\* (*color.Color).Sprint on a non-nil color: the text between the escape
\* sequence of the attribute and the reset sequence.
Sprint(color, s) == "^[[" \o color \o "m" \o s \o "^[[0m"

\* A format string that lost its newline.
logLine_noNewline(timestamp, lvl, msg) == "[" \o timestamp \o "] " \o lvl \o ": " \o msg

\* fmt.Sprintf("[%s] %s: %s\n", timestamp, levelString, msg)
logLine(timestamp, lvl, msg) == "[" \o timestamp \o "] " \o lvl \o ": " \o msg \o "\n"

\* The line fmt.Printf writes to the console.
consoleLine(timestamp, lvl, color, msg) ==
    "[" \o Sprint("37", timestamp) \o "] " \o Sprint(color, lvl) \o ": " \o msg \o "\n"

\* A write that is not an append: every writer starts at the offset the file had
\* when it was opened, so it overwrites what the others wrote since.
WriteString_atStaleOffset(content, state, s) == IF state = "open" THEN prior \o s ELSE content

\* (*os.File).WriteString on a file opened with O_APPEND: one write call that
\* appends the whole string, or fails with ErrClosed on a closed file.
WriteString(content, state, s) == IF state = "open" THEN content \o s ELSE content

\* A FATAL test that also catches ERROR.
isFatal_fromError(level) == level >= ERROR

\* The test of log that sends a call into handleFatal.
isFatal(level) == level = FATAL

\* The line the log package writes to standard error (without its own date prefix).
stdLog(s) == s \o "\n"

NoCall ==
    [op |-> "none", level |-> DEBUG, msg |-> "", name |-> "",
     timestamp |-> "", levelString |-> "", levelColor |-> "nil",
     fileRes |-> "none", consoleDone |-> FALSE, exitCode |-> 0]

Running == procState = "running"

RECURSIVE SumLen(_, _)
SumLen(h, S) ==
    IF S = {} THEN 0
    ELSE LET c == CHOOSE x \in S : TRUE IN Len(h[c]) + SumLen(h, S \ {c})

\* The number of logging calls made so far, by all callers.
NumCalls == SumLen(hist, Callers)

\* Where a call goes when log returns.
AfterLog(c) == IF call[c].op = "Fatal" THEN "Fatal" ELSE "idle"

(***************************************************************************)
(* Initial state: the program has started, no logger is constructed yet.   *)
(***************************************************************************)
Init ==
    /\ build \in {"main.go", "part_000"}
    /\ l = "nil"
    /\ err = "none"
    /\ args = [level |-> DEBUG, logFilePath |-> "", logToConsole |-> FALSE]
    /\ logger = [level |-> DEBUG]
    /\ fd = "none"
    /\ prior \in PriorContents
    /\ file = prior
    /\ console = ""
    /\ stderr = ""
    /\ now = 0
    /\ procState = "running"
    /\ exitStatus = 0
    /\ pc = [c \in Callers |-> "idle"]
    /\ call = [c \in Callers |-> NoCall]
    /\ hist = [c \in Callers |-> <<>>]
    /\ closes = 0

\* The wall clock advances.
Tick ==
    /\ Running
    /\ now < MaxClock
    /\ now' = now + 1
    /\ UNCHANGED <<build, l, err, args, logger, fd, file, prior, console, stderr,
                   procState, exitStatus, pc, call, hist, closes>>

(***************************************************************************)
(* src/main.go                                                             *)
(***************************************************************************)
NewLogger(level, logFilePath, logToConsole) ==
    /\ build = "main.go"
    /\ err = "none"
    /\ args' = [level |-> level, logFilePath |-> logFilePath, logToConsole |-> logToConsole]
    /\ IF OpenFile(logFilePath)
       THEN /\ logger' = [level |-> level, logFile |-> "file",
                          logToConsole |-> logToConsole, ExitCodes |-> ExitCodes]
            /\ fd' = "open"
            /\ l' = "&Logger"
            /\ err' = "nil"
       ELSE /\ l' = "nil"
            /\ err' = "open"
            /\ UNCHANGED <<logger, fd>>
    /\ UNCHANGED <<build, file, prior, console, stderr, now, procState, exitStatus,
                   pc, call, hist, closes>>

\* log, from its entry up to the write to the file: the filter, the switch,
\* the timestamp.  These lines read only the arguments, the immutable threshold
\* and the clock, so they run in the step of the call.
log(c, op, level, msg, name) ==
    /\ Running
    /\ l = "&Logger"
    /\ pc[c] = "idle"
    /\ NumCalls < MaxCalls
    /\ IF belowThreshold(level, logger.level)
       THEN /\ call' = [call EXCEPT ![c] = [NoCall EXCEPT !.op = op, !.level = level,
                                                         !.msg = msg, !.name = name]]
            /\ hist' = [hist EXCEPT ![c] = Append(@, [level |-> level, msg |-> msg,
                                                      timestamp |-> ""])]
            /\ pc' = [pc EXCEPT ![c] = IF op = "Fatal" THEN "Fatal" ELSE "idle"]
       ELSE /\ call' = [call EXCEPT ![c] = [NoCall EXCEPT !.op = op, !.level = level,
                                                         !.msg = msg, !.name = name,
                                                         !.levelString = levelString(level),
                                                         !.levelColor = levelColor(level),
                                                         !.timestamp = Format(now)]]
            /\ hist' = [hist EXCEPT ![c] = Append(@, [level |-> level, msg |-> msg,
                                                      timestamp |-> Format(now)])]
            /\ pc' = [pc EXCEPT ![c] = "log_WriteString"]
    /\ UNCHANGED <<build, l, err, args, logger, fd, file, prior, console, stderr, now,
                   procState, exitStatus, closes>>

Info(c, msg) == build = "main.go" /\ log(c, "Info", INFO, join(msg), "")

Warning(c, msg) == build = "main.go" /\ log(c, "Warning", WARNING, join(msg), "")

Debug(c, msg) == build = "main.go" /\ log(c, "Debug", DEBUG, join(msg), "")

Error(c, msg) == build = "main.go" /\ log(c, "Error", ERROR, join(msg), "")

Fatal(c, exitCodeName, msg) ==
    build = "main.go" /\ log(c, "Fatal", FATAL, join(msg), exitCodeName)

\* log: if l.logFile != nil { l.logFile.WriteString(logLine) }
log_WriteString(c) ==
    /\ build = "main.go"
    /\ Running
    /\ pc[c] = "log_WriteString"
    /\ IF logger.logFile # "nil"
       THEN /\ file' = WriteString(file, fd,
                          logLine(call[c].timestamp, call[c].levelString, call[c].msg))
            /\ call' = [call EXCEPT ![c].fileRes =
                          IF fd = "open" THEN "ok" ELSE "ErrClosed"]
       ELSE UNCHANGED <<file, call>>
    /\ pc' = [pc EXCEPT ![c] = "log_Printf"]
    /\ UNCHANGED <<build, l, err, args, logger, fd, prior, console, stderr, now,
                   procState, exitStatus, hist, closes>>

\* log: the console line, then the FATAL test.
log_Printf(c) ==
    /\ build = "main.go"
    /\ Running
    /\ pc[c] = "log_Printf"
    /\ IF logger.logToConsole
       THEN console' = console \o consoleLine(call[c].timestamp, call[c].levelString,
                                               call[c].levelColor, call[c].msg)
       ELSE UNCHANGED console
    /\ IF isFatal(call[c].level)
       THEN /\ call' = [call EXCEPT ![c].consoleDone = logger.logToConsole,
                                    ![c].exitCode = MapGet(logger.ExitCodes, "ERROR")]
            /\ pc' = [pc EXCEPT ![c] = "handleFatal"]
       ELSE /\ call' = [call EXCEPT ![c].consoleDone = logger.logToConsole]
            /\ pc' = [pc EXCEPT ![c] = AfterLog(c)]
    /\ UNCHANGED <<build, l, err, args, logger, fd, file, prior, stderr, now,
                   procState, exitStatus, hist, closes>>

\* Fatal, after log has returned: the lookup of the exit code by name.
Fatal_lookup(c) ==
    /\ build = "main.go"
    /\ Running
    /\ pc[c] = "Fatal"
    /\ IF call[c].name \in DOMAIN logger.ExitCodes
       THEN /\ call' = [call EXCEPT ![c].exitCode = logger.ExitCodes[call[c].name]]
            /\ UNCHANGED stderr
       ELSE /\ call' = [call EXCEPT ![c].exitCode = MapGet(logger.ExitCodes, "SUCCESS")]
            /\ stderr' = stderr \o
                 stdLog("Invalid exit code name. Defaulting to 'SUCCESS' (0).")
    /\ pc' = [pc EXCEPT ![c] = "handleFatal"]
    /\ UNCHANGED <<build, l, err, args, logger, fd, file, prior, console, now,
                   procState, exitStatus, hist, closes>>

\* handleFatal: log.Println
handleFatal(c) ==
    /\ build = "main.go"
    /\ Running
    /\ pc[c] = "handleFatal"
    /\ stderr' = stderr \o stdLog("A fatal error occurred. Exiting...")
    /\ pc' = [pc EXCEPT ![c] = "handleFatal_Close"]
    /\ UNCHANGED <<build, l, err, args, logger, fd, file, prior, console, now,
                   procState, exitStatus, call, hist, closes>>

\* A Close that releases nothing.
CloseFile_noop(state) == state

\* (*Logger).Close: the state of the file after l.logFile.Close().
CloseFile(state) == "closed"

\* handleFatal: l.Close()
handleFatal_Close(c) ==
    /\ build = "main.go"
    /\ Running
    /\ pc[c] = "handleFatal_Close"
    /\ fd' = IF logger.logFile # "nil" THEN CloseFile(fd) ELSE fd
    /\ pc' = [pc EXCEPT ![c] = "handleFatal_Exit"]
    /\ UNCHANGED <<build, l, err, args, logger, file, prior, console, stderr, now,
                   procState, exitStatus, call, hist, closes>>

\* handleFatal: os.Exit(exitCode)
handleFatal_Exit(c) ==
    /\ build = "main.go"
    /\ Running
    /\ pc[c] = "handleFatal_Exit"
    /\ procState' = "exited"
    /\ exitStatus' = call[c].exitCode
    /\ pc' = [pc EXCEPT ![c] = "exited"]
    /\ UNCHANGED <<build, l, err, args, logger, fd, file, prior, console, stderr, now,
                   call, hist, closes>>

\* A Close that treats the error of a second l.logFile.Close() as fatal.
Close_panicsWhenClosed(c) ==
    /\ build = "main.go"
    /\ Running
    /\ l = "&Logger"
    /\ pc[c] = "idle"
    /\ closes < MaxCloses
    /\ fd' = "closed"
    /\ closes' = closes + 1
    /\ procState' = IF fd = "closed" THEN "panicked" ELSE procState
    /\ UNCHANGED <<build, l, err, args, logger, file, prior, console, stderr, now,
                   exitStatus, pc, call, hist>>

\* The public Close method.
Close(c) ==
    /\ build = "main.go"
    /\ Running
    /\ l = "&Logger"
    /\ pc[c] = "idle"
    /\ closes < MaxCloses
    /\ fd' = IF logger.logFile # "nil" THEN CloseFile(fd) ELSE fd
    /\ closes' = closes + 1
    /\ UNCHANGED <<build, l, err, args, logger, file, prior, console, stderr, now,
                   procState, exitStatus, pc, call, hist>>

(***************************************************************************)
(* src/unnamed/part_000                                                    *)
(***************************************************************************)
NewLogger0(level) ==
    /\ build = "part_000"
    /\ err = "none"
    /\ args' = [level |-> level, logFilePath |-> "", logToConsole |-> TRUE]
    /\ logger' = [level |-> level]
    /\ l' = "&Logger"
    /\ err' = "nil"
    /\ UNCHANGED <<build, fd, file, prior, console, stderr, now, procState, exitStatus,
                   pc, call, hist, closes>>

\* The test that guards the body of log in part_000.
atLeastThreshold(level, threshold) == level >= threshold

\* log of part_000, from its entry up to fmt.Printf: the filter and the switch.
log0(c, op, level, msg, name) ==
    /\ Running
    /\ l = "&Logger"
    /\ pc[c] = "idle"
    /\ NumCalls < MaxCalls
    /\ IF atLeastThreshold(level, logger.level)
       THEN /\ call' = [call EXCEPT ![c] = [NoCall EXCEPT !.op = op, !.level = level,
                                                         !.msg = msg, !.name = name,
                                                         !.levelString = levelString0(level),
                                                         !.levelColor = levelColor0(level)]]
            /\ pc' = [pc EXCEPT ![c] = "log_Printf"]
       ELSE /\ call' = [call EXCEPT ![c] = [NoCall EXCEPT !.op = op, !.level = level,
                                                         !.msg = msg, !.name = name]]
            /\ pc' = [pc EXCEPT ![c] = IF op = "Fatal" THEN "Fatal" ELSE "idle"]
    /\ hist' = [hist EXCEPT ![c] = Append(@, [level |-> level, msg |-> msg,
                                              timestamp |-> ""])]
    /\ UNCHANGED <<build, l, err, args, logger, fd, file, prior, console, stderr, now,
                   procState, exitStatus, closes>>

Info0(c, msg) == build = "part_000" /\ log0(c, "Info", INFO, join(msg), "")

Warning0(c, msg) == build = "part_000" /\ log0(c, "Warning", WARNING, join(msg), "")

Debug0(c, msg) == build = "part_000" /\ log0(c, "Debug", DEBUG, join(msg), "")

Error0(c, msg) == build = "part_000" /\ log0(c, "Error", ERROR, join(msg), "")

Fatal0(c, exitCodeName, msg) ==
    build = "part_000" /\ log0(c, "Fatal", FATAL, join(msg), exitCodeName)

\* log of part_000: fmt.Printf with levelColor.Sprint(levelString) as an argument,
\* then the FATAL test.  Sprint on a nil *color.Color dereferences it: the
\* goroutine panics and the process dies before anything is printed.
log0_Printf(c) ==
    /\ build = "part_000"
    /\ Running
    /\ pc[c] = "log_Printf"
    /\ IF call[c].levelColor = "nil"
       THEN /\ procState' = "panicked"
            /\ pc' = [pc EXCEPT ![c] = "panicked"]
            /\ UNCHANGED <<console, call>>
       ELSE /\ console' = console \o consoleLine(Format(now), call[c].levelString,
                                                 call[c].levelColor, call[c].msg)
            /\ UNCHANGED procState
            /\ IF isFatal(call[c].level)
               THEN /\ call' = [call EXCEPT ![c].timestamp = Format(now),
                                            ![c].consoleDone = TRUE,
                                            ![c].exitCode = MapGet(exitCodes, "ERROR")]
                    /\ pc' = [pc EXCEPT ![c] = "handleFatal"]
               ELSE /\ call' = [call EXCEPT ![c].timestamp = Format(now),
                                            ![c].consoleDone = TRUE]
                    /\ pc' = [pc EXCEPT ![c] = AfterLog(c)]
    /\ UNCHANGED <<build, l, err, args, logger, fd, file, prior, stderr, now,
                   exitStatus, hist, closes>>

\* Fatal of part_000, after log has returned: the lookup of the exit code by name.
Fatal0_lookup(c) ==
    /\ build = "part_000"
    /\ Running
    /\ pc[c] = "Fatal"
    /\ IF call[c].name \in DOMAIN exitCodes
       THEN /\ call' = [call EXCEPT ![c].exitCode = exitCodes[call[c].name]]
            /\ UNCHANGED stderr
       ELSE /\ call' = [call EXCEPT ![c].exitCode = MapGet(exitCodes, "SUCCESS")]
            /\ stderr' = stderr \o
                 stdLog("Invalid exit code name. Defaulting to 'SUCCESS' (0).")
    /\ pc' = [pc EXCEPT ![c] = "handleFatal"]
    /\ UNCHANGED <<build, l, err, args, logger, fd, file, prior, console, now,
                   procState, exitStatus, hist, closes>>

\* handleFatal of part_000: log.Println (there is nothing to close)
handleFatal0(c) ==
    /\ build = "part_000"
    /\ Running
    /\ pc[c] = "handleFatal"
    /\ stderr' = stderr \o stdLog("A fatal error occurred. Exiting...")
    /\ pc' = [pc EXCEPT ![c] = "handleFatal_Exit"]
    /\ UNCHANGED <<build, l, err, args, logger, fd, file, prior, console, now,
                   procState, exitStatus, call, hist, closes>>

\* handleFatal of part_000: os.Exit(exitCode)
handleFatal0_Exit(c) ==
    /\ build = "part_000"
    /\ Running
    /\ pc[c] = "handleFatal_Exit"
    /\ procState' = "exited"
    /\ exitStatus' = call[c].exitCode
    /\ pc' = [pc EXCEPT ![c] = "exited"]
    /\ UNCHANGED <<build, l, err, args, logger, fd, file, prior, console, stderr, now,
                   call, hist, closes>>

NextPart000 ==
    \/ \E level \in Thresholds : NewLogger0(level)
    \/ \E c \in Callers, msg \in PartsSet : Info0(c, msg)
    \/ \E c \in Callers, msg \in PartsSet : Warning0(c, msg)
    \/ \E c \in Callers, msg \in PartsSet : Debug0(c, msg)
    \/ \E c \in Callers, msg \in PartsSet : Error0(c, msg)
    \/ \E c \in Callers, msg \in PartsSet, n \in ExitCodeNames : Fatal0(c, n, msg)
    \/ \E c \in Callers : log0_Printf(c)
    \/ \E c \in Callers : Fatal0_lookup(c)
    \/ \E c \in Callers : handleFatal0(c)
    \/ \E c \in Callers : handleFatal0_Exit(c)

\* The finalizer NewLogger sets: it runs once no caller holds the logger any
\* more (so no method is in progress and none can be called afterwards), prints
\* a line and closes the file.
Finalizer ==
    /\ build = "main.go"
    /\ Running
    /\ l = "&Logger"
    /\ \A c \in Callers : pc[c] = "idle"
    /\ console' = console \o "Finalizer: Closing log file.\n"
    /\ fd' = IF logger.logFile # "nil" THEN CloseFile(fd) ELSE fd
    /\ l' = "collected"
    /\ UNCHANGED <<build, err, args, logger, file, prior, stderr, now,
                   procState, exitStatus, pc, call, hist, closes>>

NextMain ==
    \/ \E level \in Thresholds, p \in Paths, b \in BOOLEAN : NewLogger(level, p, b)
    \/ \E c \in Callers, msg \in PartsSet : Info(c, msg)
    \/ \E c \in Callers, msg \in PartsSet : Warning(c, msg)
    \/ \E c \in Callers, msg \in PartsSet : Debug(c, msg)
    \/ \E c \in Callers, msg \in PartsSet : Error(c, msg)
    \/ \E c \in Callers, msg \in PartsSet, n \in ExitCodeNames : Fatal(c, n, msg)
    \/ \E c \in Callers : log_WriteString(c)
    \/ \E c \in Callers : log_Printf(c)
    \/ \E c \in Callers : Fatal_lookup(c)
    \/ \E c \in Callers : handleFatal(c)
    \/ \E c \in Callers : handleFatal_Close(c)
    \/ \E c \in Callers : handleFatal_Exit(c)
    \/ \E c \in Callers : Close(c)
    \/ Finalizer

Next == Tick \/ NextMain \/ NextPart000

Spec == Init /\ [][Next]_vars

(***************************************************************************)
(* Properties.                                                             *)
(***************************************************************************)
Main == build = "main.go"

NonFatalOps == {"Debug", "Info", "Warning", "Error"}

\* The stages of the fatal path, from the entry of handleFatal on.
FatalStages == {"handleFatal", "handleFatal_Close", "handleFatal_Exit", "exited"}

\* The tag the file format prescribes for a severity.
Tag(level) == <<"DEBUG", "INFO", "WARNING", "ERROR", "FATAL">>[level + 1]

\* The file line the format prescribes for a call: [YYYY-MM-DD HH:MM:SS] LEVEL: message
FormatLine(e) == "[" \o e.timestamp \o "] " \o Tag(e.level) \o ": " \o e.msg \o "\n"

\* The lines of the calls of h that pass the threshold, in call order.
RECURSIVE AcceptedLines(_)
AcceptedLines(h) ==
    IF h = <<>> THEN ""
    ELSE AcceptedLines(SubSeq(h, 1, Len(h) - 1)) \o
         (IF h[Len(h)].level >= logger.level THEN FormatLine(h[Len(h)]) ELSE "")

\* The lines of the first n callers' single calls, in the order p.
RECURSIVE LinesInOrder(_, _)
LinesInOrder(p, n) ==
    IF n = 0 THEN "" ELSE LinesInOrder(p, n - 1) \o FormatLine(hist[p[n]][1])

\* C1: in both revisions, Fatal(n, ...) with n a key of the exit-code table
\* terminates the process with exactly table[n].
C1_FatalExitsWithNamedCode ==
    \A c \in Callers :
        (pc[c] = "exited" /\ call[c].op = "Fatal" /\ call[c].name \in DOMAIN ExitCodes)
            => exitStatus = ExitCodes[call[c].name]

\* C2: Fatal(n, ...) with n not a key of the table (threshold among the declared
\* levels) writes the FATAL line to the enabled sinks and then terminates the
\* process with the code of "SUCCESS" (0).
C2_FatalUnknownNameDefaults ==
    \A c \in Callers :
        (Main /\ pc[c] = "exited" /\ call[c].op = "Fatal" /\ logger.level <= FATAL
              /\ call[c].name \notin DOMAIN ExitCodes)
            => /\ exitStatus = ExitCodes["SUCCESS"]
               /\ call[c].fileRes # "none"
               /\ logger.logToConsole => call[c].consoleDone

\* C3: with the file open, a call out of log has written its line to a sink
\* exactly if its severity is at least the threshold; no step of a call below the
\* threshold changes the file or the console.
C3_Filter ==
    \A c \in Callers :
        (Main /\ fd = "open" /\ call[c].op # "none"
              /\ pc[c] \notin {"log_WriteString", "log_Printf"})
            => /\ (call[c].fileRes = "ok" \/ call[c].consoleDone)
                    <=> call[c].level >= logger.level
               /\ call[c].level >= logger.level => call[c].fileRes = "ok"

C3_BelowThresholdSilent ==
    \A c \in Callers :
        (Main /\ (pc'[c] # pc[c] \/ call'[c] # call[c])
              /\ call'[c].level < logger.level)
            => (file' = file /\ console' = console)

C3_SinkWrittenIffAtLeastThreshold == [](C3_Filter) /\ [][C3_BelowThresholdSilent]_vars

C3_Witness ==
    /\ Main /\ fd = "open"
    /\ \E c, d \in Callers :
          /\ pc[c] = "idle" /\ call[c].op \in NonFatalOps
          /\ call[c].level >= logger.level /\ call[c].fileRes = "ok"
          /\ pc[d] = "idle" /\ call[d].op \in NonFatalOps
          /\ call[d].level < logger.level /\ call[d].fileRes = "none"
          /\ file = prior \o FormatLine(call[c])

\* C4 as stated: whenever the fatal path has terminated the process (threshold
\* among the declared levels), the FATAL line was written to the file and, if
\* enabled, to the console, and the file handle is closed.
C4_FatalLineWrittenThenClosed ==
    \A c \in Callers :
        (Main /\ pc[c] = "exited" /\ logger.level <= FATAL)
            => /\ call[c].fileRes = "ok"
               /\ logger.logToConsole => call[c].consoleDone
               /\ fd = "closed"

\* C4 as amended: in the fatal path the FATAL line, if it passes the threshold,
\* is first handed to the sinks (the append succeeds unless the handle was closed
\* before, by Close or by another caller's fatal path), then the handle is closed,
\* then the process terminates; the process never terminates with the handle open.
C4_OrderOfFatalPath ==
    /\ Main /\ procState = "exited" => fd = "closed"
    /\ \A c \in Callers :
          (Main /\ pc[c] \in FatalStages) =>
              /\ call[c].level = FATAL
              /\ call[c].level >= logger.level =>
                    /\ call[c].fileRes \in {"ok", "ErrClosed"}
                    /\ call[c].consoleDone = logger.logToConsole
              /\ (/\ call[c].level >= logger.level
                  /\ closes = 0
                  /\ \A d \in Callers \ {c} : pc[d] \notin {"handleFatal_Exit", "exited"})
                    => call[c].fileRes = "ok"
              /\ pc[c] \in {"handleFatal_Exit", "exited"} => fd = "closed"

C4_Witness ==
    \E c \in Callers :
        /\ Main /\ pc[c] = "exited" /\ procState = "exited" /\ fd = "closed"
        /\ call[c].fileRes = "ok" /\ call[c].consoleDone
        /\ file = prior \o FormatLine(call[c])

\* C5: while the file is open and a single caller has logged, the file is its
\* prior content followed by exactly one line per accepted call, in call order.
C5_OneLinePerAcceptedCall ==
    \A c \in Callers :
        (/\ Main /\ l = "&Logger" /\ fd = "open"
         /\ pc[c] = "idle"
         /\ \A d \in Callers \ {c} : hist[d] = <<>>)
            => file = prior \o AcceptedLines(hist[c])

C5_Witness ==
    \E c \in Callers :
        /\ Main /\ fd = "open" /\ pc[c] = "idle"
        /\ \A d \in Callers \ {c} : hist[d] = <<>>
        /\ Len(hist[c]) >= 2
        /\ hist[c][1].level >= logger.level
        /\ hist[c][2].level >= logger.level
        /\ hist[c][1].level # hist[c][2].level
        /\ prior # ""
        /\ file = prior \o FormatLine(hist[c][1]) \o FormatLine(hist[c][2])

\* C6: a Close on an already closed logger does not end the process and changes
\* neither the file nor the logger; once the handle is closed the file content
\* never changes again.
C6_CloseStep ==
    /\ (Main /\ closes' = closes + 1 /\ fd = "closed")
          => /\ fd' = "closed"
             /\ file' = file
             /\ logger' = logger
             /\ procState' = procState
             /\ pc' = pc
    /\ (Main /\ fd = "closed") => (file' = file /\ fd' = "closed" /\ logger' = logger)

C6_CloseIdempotent == [][C6_CloseStep]_vars

C6_Witness ==
    /\ Main /\ closes >= 2 /\ fd = "closed" /\ procState = "running"
    /\ file # prior

\* C7: when every caller has logged one accepted message concurrently, the file
\* is its prior content followed by the complete lines of the callers, one each,
\* in some order.
C7_ConcurrentLinesWhole ==
    (/\ Main /\ fd = "open"
     /\ \A c \in Callers :
           /\ pc[c] = "idle"
           /\ Len(hist[c]) = 1
           /\ hist[c][1].level >= logger.level)
        => \E p \in Permutations(Callers) : file = prior \o LinesInOrder(p, NumCallers)

\* Caller 2 took its timestamp after caller 1 and yet wrote first: the two calls
\* overlapped.
C7_Witness ==
    /\ Main /\ fd = "open"
    /\ \A c \in Callers :
          pc[c] = "idle" /\ Len(hist[c]) = 1 /\ hist[c][1].level >= logger.level
    /\ hist[1][1].timestamp = Format(0)
    /\ hist[2][1].timestamp = Format(1)
    /\ file = prior \o FormatLine(hist[2][1]) \o FormatLine(hist[1][1])

C10_RenderingTotal ==
    \A c \in Callers :
        pc[c] \in {"log_WriteString", "log_Printf"}
            => (call[c].levelString # "" /\ call[c].levelColor # "nil")
====
